---- MODULE Spec2Model ----
(***************************************************************************)
(* The kqueue pollset of libs/apr/poll/unix/kqueue.c as a state machine.   *)
(*                                                                         *)
(* The pollset is the one built by fspr_pollset_create with the            *)
(* APR_POLLSET_THREADSAFE flag, so every pollset_lock_rings() takes the    *)
(* ring mutex.  Caller threads run fspr_pollset_add, fspr_pollset_remove   *)
(* and fspr_pollset_poll; each call is cut into steps at the points where  *)
(* another thread can observe or change what the call reads: the lock, the *)
(* kevent() system calls, and the unlocked copy loop of poll.              *)
(*                                                                         *)
(* The kernel side of kqueue is the table kq: one knote per (ident,        *)
(* filter) pair, holding the udata pointer given by the last EV_ADD.       *)
(***************************************************************************)
EXTENDS Integers, Sequences, FiniteSets, TLC

\* ------------------------------------------------------------------ bounds
NumThreads == 2     \* caller threads
NumDescs   == 2     \* distinct descriptors (desc.s pointers) callers use
MaxNelts   == 2     \* cap on the nelts counter, i.e. on successful adds
Size       == 2     \* the size argument of fspr_pollset_create
MaxDestroy == 2     \* fspr_pollset_destroy calls over the pollset's lifetime

Threads == 1 .. NumThreads
Descs   == 1 .. NumDescs
\* the pfd_elem_t records: a fresh one is allocated only when Free is empty,
\* that is when every record so far is Active or Dead, so there are never
\* more records than successful adds
Recs    == 1 .. MaxNelts

\* ------------------------------------------------------- portable values
APR_SUCCESS  == "APR_SUCCESS"
APR_ENOMEM   == "APR_ENOMEM"
APR_NOTFOUND == "APR_NOTFOUND"
APR_TIMEUP   == "APR_TIMEUP"
NetosError   == "NETOS_ERROR"      \* fspr_get_netos_error(): errno translated

APR_POLLIN  == "APR_POLLIN"
APR_POLLOUT == "APR_POLLOUT"
APR_POLLHUP == "APR_POLLHUP"
APR_POLLERR == "APR_POLLERR"

EVFILT_READ  == "EVFILT_READ"
EVFILT_WRITE == "EVFILT_WRITE"
EV_EOF       == "EV_EOF"
EV_ERROR     == "EV_ERROR"

Filters  == {EVFILT_READ, EVFILT_WRITE}
FlagSets == SUBSET {EV_EOF, EV_ERROR}
\* the reqevents a caller passes: a non-empty mask over readable / writable
ReqMasks == {{APR_POLLIN}, {APR_POLLOUT}, {APR_POLLIN, APR_POLLOUT}}
\* the timeout argument of poll: negative blocks, zero returns at once
Timeouts == {-1, 0}

\* descriptor->desc.s->socketdes: every descriptor object has its own fd
FdOf(d) == d

\* an fspr_pollfd_t; desc = 0 is memory nothing was stored in yet
NoPfd == [desc |-> 0, reqevents |-> {}, rtnevents |-> {}]
Pfd(d, m) == [desc |-> d, reqevents |-> m, rtnevents |-> {}]
\* a struct kevent of ke_set after the memset of create
NoKevent == [ident |-> 0, filter |-> "0", flags |-> {}, udata |-> 0]

VARIABLES
    nelts,        \* pollset->nelts
    nalloc,       \* pollset->nalloc
    ring_lock,    \* pollset->ring_lock: 0 free, else the thread holding it
    query_ring,   \* pollset->query_ring, a sequence of records, head first
    free_ring,    \* pollset->free_ring
    dead_ring,    \* pollset->dead_ring
    elems,        \* the pfd field of every pfd_elem_t record
    nrecs,        \* how many records fspr_palloc has handed out
    kq,           \* the kernel's knotes: [fd, filter] -> udata (0: none)
    ke_set,       \* pollset->ke_set, the native event buffer
    result_set,   \* pollset->result_set
    pc,           \* where each thread is
    arg,          \* the descriptor argument of the thread's add / remove
    elem,         \* add: elem;  remove: ep, the record moved (0: none)
    rv,           \* the call's rv
    ret,          \* poll: ret, which is also *num
    idx,          \* poll: the loop index i
    timeout,      \* poll: the timeout argument
    ready,        \* poll: the knotes that were ready when kevent returned
    deadAtStart,  \* poll: the records in Dead when the call started
    deadInWait,   \* poll: the records remove moved to Dead during its wait
    kqueue_open,  \* pollset->kqueue_fd is an open handle
    cleanup_registered,  \* backend_cleanup is on the pool's cleanup list
    pool_alive,   \* the owning pool has not been torn down
    closes,       \* how many times close(kqueue_fd) was called
    ndestroy      \* how many times fspr_pollset_destroy was called

shared == <<nelts, nalloc, ring_lock, query_ring, free_ring, dead_ring,
            elems, nrecs, kq, ke_set, result_set>>
locals == <<pc, arg, elem, rv, ret, idx, timeout, ready, deadAtStart,
            deadInWait>>
life   == <<kqueue_open, cleanup_registered, pool_alive, closes, ndestroy>>
vars   == <<shared, locals, life>>

\* ----------------------------------------------------------------- helpers
Range(s) == {s[k] : k \in 1 .. Len(s)}
Min(a, b) == IF a < b THEN a ELSE b
Knotes == {<<FdOf(d), f>> : d \in Descs, f \in Filters}
Registered == {k \in Knotes : kq[k] # 0}
\* sequences of n distinct elements of S
Arrangements(S, n) ==
    {s \in [1 .. n -> S] : \A a, b \in 1 .. n : a # b => s[a] # s[b]}

\* ke_set and result_set are scratch buffers that the code never clears.  A
\* slot's old content cannot be observed once no call in flight will read
\* it: poll reads ke_set only in its copy loop, and a result is the caller's
\* until that caller goes on.  The model shows such dead content as zero, so
\* that states differing only in it are one state.
Copying(p, t) == \E u \in Threads \ {t} : p[u] = "poll_copy"
Reporting(p, t) ==
    \E u \in Threads \ {t} :
        p[u] \in {"poll_copy", "poll_lock", "poll_concat", "poll_ret"}
ZeroKeSet == [k \in 1 .. Size |-> NoKevent]
ZeroResultSet == [k \in 1 .. Size |-> NoPfd]

\* a translation that tests the flags with else-if: one condition bit only
get_kqueue_revent_elif(event, flags) ==
    (IF event = EVFILT_READ THEN {APR_POLLIN} ELSE {})
        \cup (IF event = EVFILT_WRITE THEN {APR_POLLOUT} ELSE {})
        \cup (IF EV_EOF \in flags THEN {APR_POLLHUP}
              ELSE IF EV_ERROR \in flags THEN {APR_POLLERR} ELSE {})

\* get_kqueue_revent: the portable mask of one native event
get_kqueue_revent(event, flags) ==
    (IF event = EVFILT_READ THEN {APR_POLLIN} ELSE {})
        \cup (IF event = EVFILT_WRITE THEN {APR_POLLOUT} ELSE {})
        \cup (IF EV_EOF \in flags THEN {APR_POLLHUP} ELSE {})
        \cup (IF EV_ERROR \in flags THEN {APR_POLLERR} ELSE {})

\* a caller starts add, remove or poll only on a pollset that may be used:
\* its handle is open and its pool is alive
Usable == kqueue_open /\ pool_alive

\* ------------------------------------------------------------------- Init
\* the pollset fspr_pollset_create(size = Size, flags = THREADSAFE) returns
Init ==
    /\ nelts = 0
    /\ nalloc = Size
    /\ ring_lock = 0
    /\ query_ring = <<>>
    /\ free_ring = <<>>
    /\ dead_ring = <<>>
    /\ elems = [r \in Recs |-> NoPfd]
    /\ nrecs = 0
    /\ kq = [k \in Knotes |-> 0]
    /\ ke_set = ZeroKeSet
    /\ result_set = ZeroResultSet
    /\ pc = [t \in Threads |-> "idle"]
    /\ arg = [t \in Threads |-> NoPfd]
    /\ elem = [t \in Threads |-> 0]
    /\ rv = [t \in Threads |-> APR_SUCCESS]
    /\ ret = [t \in Threads |-> 0]
    /\ idx = [t \in Threads |-> 0]
    /\ timeout = [t \in Threads |-> 0]
    /\ ready = [t \in Threads |-> {}]
    /\ deadAtStart = [t \in Threads |-> {}]
    /\ deadInWait = [t \in Threads |-> {}]
    /\ kqueue_open = TRUE             \* line 98
    /\ cleanup_registered = TRUE      \* lines 104-105
    /\ pool_alive = TRUE
    /\ closes = 0
    /\ ndestroy = 0

\* -------------------------------------------------------- fspr_pollset_add
\* an add that never looks at the Free ring and always allocates
AddBeginFresh(t, d, m) ==
    /\ pc[t] = "idle"
    /\ Usable
    /\ ring_lock = 0
    /\ Len(query_ring) < nalloc
    /\ nelts < MaxNelts
    /\ nrecs < MaxNelts
    /\ ring_lock' = t
    /\ elem' = [elem EXCEPT ![t] = nrecs + 1]
    /\ nrecs' = nrecs + 1
    /\ elems' = [elems EXCEPT ![elem'[t]] = Pfd(d, m)]
    /\ arg' = [arg EXCEPT ![t] = Pfd(d, m)]
    /\ rv' = [rv EXCEPT ![t] = APR_SUCCESS]
    /\ pc' = [pc EXCEPT ![t] = "add_read"]
    /\ UNCHANGED <<nelts, nalloc, query_ring, free_ring, dead_ring, kq,
                   ke_set, result_set, ret, idx, timeout, ready, deadAtStart,
                   deadInWait, life>>

\* lines 128-138: lock, take a record (Free head, else a fresh one), fill it
AddBegin(t, d, m) ==
    /\ pc[t] = "idle"
    /\ Usable
    /\ ring_lock = 0
    /\ Len(query_ring) < nalloc       \* the caller keeps within capacity
    /\ nelts < MaxNelts
    /\ ring_lock' = t
    /\ IF free_ring # <<>>
       THEN /\ elem' = [elem EXCEPT ![t] = Head(free_ring)]
            /\ free_ring' = Tail(free_ring)
            /\ nrecs' = nrecs
       ELSE /\ elem' = [elem EXCEPT ![t] = nrecs + 1]
            /\ free_ring' = free_ring
            /\ nrecs' = nrecs + 1
    /\ elems' = [elems EXCEPT ![elem'[t]] = Pfd(d, m)]
    /\ arg' = [arg EXCEPT ![t] = Pfd(d, m)]
    /\ rv' = [rv EXCEPT ![t] = APR_SUCCESS]
    /\ pc' = [pc EXCEPT ![t] = "add_read"]
    /\ UNCHANGED <<nelts, nalloc, query_ring, dead_ring, kq, ke_set,
                   result_set, ret, idx, timeout, ready, deadAtStart,
                   deadInWait>>
    /\ UNCHANGED life

\* lines 147-154: EV_ADD of the read filter, tagged with the record
AddWatchRead(t) ==
    /\ pc[t] = "add_read"
    /\ IF APR_POLLIN \in arg[t].reqevents
       THEN \E ok \in BOOLEAN :
                IF ok
                THEN /\ kq' = [kq EXCEPT
                               ![<<FdOf(arg[t].desc), EVFILT_READ>>] = elem[t]]
                     /\ rv' = rv
                ELSE /\ kq' = kq
                     /\ rv' = [rv EXCEPT ![t] = APR_ENOMEM]
       ELSE UNCHANGED <<kq, rv>>
    /\ pc' = [pc EXCEPT ![t] = "add_write"]
    /\ UNCHANGED <<nelts, nalloc, ring_lock, query_ring, free_ring, dead_ring,
                   elems, nrecs, ke_set, result_set, arg, elem, ret, idx,
                   timeout, ready, deadAtStart, deadInWait>>
    /\ UNCHANGED life

\* lines 156-163: EV_ADD of the write filter, only while rv is still success
AddWatchWrite(t) ==
    /\ pc[t] = "add_write"
    /\ IF APR_POLLOUT \in arg[t].reqevents /\ rv[t] = APR_SUCCESS
       THEN \E ok \in BOOLEAN :
                IF ok
                THEN /\ kq' = [kq EXCEPT
                               ![<<FdOf(arg[t].desc), EVFILT_WRITE>>] = elem[t]]
                     /\ rv' = rv
                ELSE /\ kq' = kq
                     /\ rv' = [rv EXCEPT ![t] = APR_ENOMEM]
       ELSE UNCHANGED <<kq, rv>>
    /\ pc' = [pc EXCEPT ![t] = "add_end"]
    /\ UNCHANGED <<nelts, nalloc, ring_lock, query_ring, free_ring, dead_ring,
                   elems, nrecs, ke_set, result_set, arg, elem, ret, idx,
                   timeout, ready, deadAtStart, deadInWait>>
    /\ UNCHANGED life

\* an add that links the record at the head of the Active ring
AddEndHead(t) ==
    /\ pc[t] = "add_end"
    /\ IF rv[t] = APR_SUCCESS
       THEN /\ nelts' = nelts + 1
            /\ query_ring' = <<elem[t]>> \o query_ring
            /\ free_ring' = free_ring
       ELSE /\ nelts' = nelts
            /\ query_ring' = query_ring
            /\ free_ring' = Append(free_ring, elem[t])
    /\ ring_lock' = 0
    /\ pc' = [pc EXCEPT ![t] = "add_ret"]
    /\ UNCHANGED <<nalloc, dead_ring, elems, nrecs, kq, ke_set, result_set,
                   arg, elem, rv, ret, idx, timeout, ready, deadAtStart,
                   deadInWait, life>>

\* lines 165-175: the record joins Active (and nelts grows) or goes back to
\* Free; unlock; return rv
AddEnd(t) ==
    /\ pc[t] = "add_end"
    /\ IF rv[t] = APR_SUCCESS
       THEN /\ nelts' = nelts + 1
            /\ query_ring' = Append(query_ring, elem[t])
            /\ free_ring' = free_ring
       ELSE /\ nelts' = nelts
            /\ query_ring' = query_ring
            /\ free_ring' = Append(free_ring, elem[t])
    /\ ring_lock' = 0
    /\ pc' = [pc EXCEPT ![t] = "add_ret"]
    /\ UNCHANGED <<nalloc, dead_ring, elems, nrecs, kq, ke_set, result_set,
                   arg, elem, rv, ret, idx, timeout, ready, deadAtStart,
                   deadInWait>>
    /\ UNCHANGED life

\* ----------------------------------------------------- fspr_pollset_remove
\* lines 185-192: lock, and the fd of the descriptor
RemoveBegin(t, d, m) ==
    /\ pc[t] = "idle"
    /\ Usable
    /\ ring_lock = 0
    /\ ring_lock' = t
    /\ arg' = [arg EXCEPT ![t] = Pfd(d, m)]
    /\ rv' = [rv EXCEPT ![t] = APR_SUCCESS]
    /\ pc' = [pc EXCEPT ![t] = "remove_read"]
    /\ UNCHANGED <<nelts, nalloc, query_ring, free_ring, dead_ring, elems,
                   nrecs, kq, ke_set, result_set, elem, ret, idx, timeout,
                   ready, deadAtStart, deadInWait>>
    /\ UNCHANGED life

\* kevent(EV_DELETE) fails (ENOENT) when the knote does not exist
DeleteFails(fd, filter) == kq[<<fd, filter>>] = 0

\* lines 194-201: EV_DELETE of the read filter when reqevents has APR_POLLIN
RemoveUnwatchRead(t) ==
    /\ pc[t] = "remove_read"
    /\ IF APR_POLLIN \in arg[t].reqevents
       THEN IF DeleteFails(FdOf(arg[t].desc), EVFILT_READ)
            THEN /\ rv' = [rv EXCEPT ![t] = APR_NOTFOUND]
                 /\ kq' = kq
            ELSE /\ rv' = rv
                 /\ kq' = [kq EXCEPT ![<<FdOf(arg[t].desc), EVFILT_READ>>] = 0]
       ELSE UNCHANGED <<kq, rv>>
    /\ pc' = [pc EXCEPT ![t] = "remove_write"]
    /\ UNCHANGED <<nelts, nalloc, ring_lock, query_ring, free_ring, dead_ring,
                   elems, nrecs, ke_set, result_set, arg, elem, ret, idx,
                   timeout, ready, deadAtStart, deadInWait>>
    /\ UNCHANGED life

\* lines 203-210: EV_DELETE of the write filter, only while rv is success
RemoveUnwatchWrite(t) ==
    /\ pc[t] = "remove_write"
    /\ IF APR_POLLOUT \in arg[t].reqevents /\ rv[t] = APR_SUCCESS
       THEN IF DeleteFails(FdOf(arg[t].desc), EVFILT_WRITE)
            THEN /\ rv' = [rv EXCEPT ![t] = APR_NOTFOUND]
                 /\ kq' = kq
            ELSE /\ rv' = rv
                 /\ kq' = [kq EXCEPT ![<<FdOf(arg[t].desc), EVFILT_WRITE>>] = 0]
       ELSE UNCHANGED <<kq, rv>>
    /\ pc' = [pc EXCEPT ![t] = "remove_scan"]
    /\ UNCHANGED <<nelts, nalloc, ring_lock, query_ring, free_ring, dead_ring,
                   elems, nrecs, ke_set, result_set, arg, elem, ret, idx,
                   timeout, ready, deadAtStart, deadInWait>>
    /\ UNCHANGED life

\* a scan that does not stop at the first match: the last match is taken
RemoveScanLast(ring, recs, d) ==
    LET hits == {k \in 1 .. Len(ring) : recs[ring[k]].desc = d}
    IN  IF hits = {} THEN 0
        ELSE CHOOSE k \in hits : \A j \in hits : k >= j

\* a scan whose comparison always succeeds: the head of Active is taken
RemoveScanHead(ring, recs, d) == IF ring = <<>> THEN 0 ELSE 1

\* lines 212-225, the scan: the position in the Active ring of the first
\* record whose desc equals the descriptor's, 0 when there is none
RemoveScan(ring, recs, d) ==
    LET hits == {k \in 1 .. Len(ring) : recs[ring[k]].desc = d}
    IN  IF hits = {} THEN 0
        ELSE CHOOSE k \in hits : \A j \in hits : k <= j

\* an unlink that leaves the element in its ring
UnlinkKeep(ring, k) == ring

\* APR_RING_REMOVE of the element at position k (line 219)
Unlink(ring, k) == SubSeq(ring, 1, k - 1) \o SubSeq(ring, k + 1, Len(ring))

\* lines 212-229: move the first match from Active to the tail of Dead,
\* unlock, return rv
RemoveEnd(t) ==
    LET k == RemoveScan(query_ring, elems, arg[t].desc)
    IN  /\ pc[t] = "remove_scan"
        /\ IF k # 0
           THEN /\ query_ring' = Unlink(query_ring, k)
                /\ dead_ring' = Append(dead_ring, query_ring[k])
                /\ elem' = [elem EXCEPT ![t] = query_ring[k]]
                /\ deadInWait' =
                       [u \in Threads |->
                           IF pc[u] = "poll_wait"
                           THEN deadInWait[u] \cup {query_ring[k]}
                           ELSE deadInWait[u]]
           ELSE UNCHANGED <<query_ring, dead_ring, elem, deadInWait>>
        /\ ring_lock' = 0
        /\ pc' = [pc EXCEPT ![t] = "remove_ret"]
        /\ UNCHANGED <<nelts, nalloc, free_ring, elems, nrecs, kq, ke_set,
                       result_set, arg, rv, ret, idx, timeout, ready,
                       deadAtStart>>
        /\ UNCHANGED life

\* ------------------------------------------------------- fspr_pollset_poll
\* lines 241-250: the call starts and enters kevent() to wait
PollBegin(t, to) ==
    /\ pc[t] = "idle"
    /\ Usable
    /\ timeout' = [timeout EXCEPT ![t] = to]
    /\ rv' = [rv EXCEPT ![t] = APR_SUCCESS]
    /\ deadAtStart' = [deadAtStart EXCEPT ![t] = Range(dead_ring)]
    /\ deadInWait' = [deadInWait EXCEPT ![t] = {}]
    /\ pc' = [pc EXCEPT ![t] = "poll_wait"]
    /\ UNCHANGED <<shared, arg, elem, ret, idx, ready>>
    /\ UNCHANGED life

\* what kevent() stores in ke_set for the knotes evs[1..n], with flags fl
Delivered(evs, fl) ==
    [k \in 1 .. Size |->
        IF k <= Len(evs)
        THEN [ident |-> evs[k][1], filter |-> evs[k][2], flags |-> fl[k],
              udata |-> kq[evs[k]]]
        ELSE ke_set[k]]

\* lines 250-258: kevent() returns -1, or 0 after the timeout, or the number
\* of events it stored: up to nalloc of the ready knotes, in any order
PollWaitError(t) ==
    /\ pc[t] = "poll_wait"
    /\ ret' = [ret EXCEPT ![t] = -1]
    /\ rv' = [rv EXCEPT ![t] = NetosError]
    /\ pc' = [pc EXCEPT ![t] = "poll_lock"]
    /\ timeout' = [timeout EXCEPT ![t] = 0]
    /\ UNCHANGED <<shared, arg, elem, idx, ready, deadAtStart, deadInWait>>
    /\ UNCHANGED life

\* a poll without the ret == 0 branch: no event is reported as success
PollWaitTimeoutSuccess(t) ==
    /\ pc[t] = "poll_wait"
    /\ timeout[t] >= 0
    /\ ret' = [ret EXCEPT ![t] = 0]
    /\ rv' = [rv EXCEPT ![t] = APR_SUCCESS]
    /\ pc' = [pc EXCEPT ![t] = "poll_lock"]
    /\ timeout' = [timeout EXCEPT ![t] = 0]
    /\ UNCHANGED <<shared, arg, elem, idx, ready, deadAtStart, deadInWait,
                   life>>

PollWaitTimeout(t) ==
    /\ pc[t] = "poll_wait"
    /\ timeout[t] >= 0
    /\ ret' = [ret EXCEPT ![t] = 0]
    /\ rv' = [rv EXCEPT ![t] = APR_TIMEUP]
    /\ pc' = [pc EXCEPT ![t] = "poll_lock"]
    /\ timeout' = [timeout EXCEPT ![t] = 0]
    /\ UNCHANGED <<shared, arg, elem, idx, ready, deadAtStart, deadInWait>>
    /\ UNCHANGED life

PollWaitEvents(t, F) ==
    /\ pc[t] = "poll_wait"
    /\ \E R \in SUBSET Registered :
         /\ R # {}
         /\ \E evs \in Arrangements(R, Min(nalloc, Cardinality(R))) :
            \E fl \in [1 .. Len(evs) -> F] :
              /\ ke_set' = Delivered(evs, fl)
              /\ ret' = [ret EXCEPT ![t] = Len(evs)]
              /\ ready' = [ready EXCEPT ![t] = R]
    /\ idx' = [idx EXCEPT ![t] = 0]
    /\ timeout' = [timeout EXCEPT ![t] = 0]
    /\ pc' = [pc EXCEPT ![t] = "poll_copy"]
    /\ UNCHANGED <<nelts, nalloc, ring_lock, query_ring, free_ring, dead_ring,
                   elems, nrecs, kq, result_set, arg, elem, rv, deadAtStart,
                   deadInWait>>
    /\ UNCHANGED life

\* lines 261-265, one pass of the loop: slot i of result_set gets the pfd of
\* the record ke_set[i].udata points to, and the translated events
PollCopy(t) ==
    LET ke == ke_set[idx[t] + 1]
    IN  /\ pc[t] = "poll_copy"
        /\ result_set' =
               [result_set EXCEPT ![idx[t] + 1] =
                   [elems[ke.udata] EXCEPT
                       !.rtnevents = get_kqueue_revent(ke.filter, ke.flags)]]
        /\ idx' = [idx EXCEPT ![t] = idx[t] + 1]
        /\ pc' = [pc EXCEPT ![t] =
                     IF idx[t] + 1 < ret[t] THEN "poll_copy" ELSE "poll_lock"]
        /\ ke_set' = IF idx[t] + 1 < ret[t] \/ Copying(pc, t)
                     THEN ke_set ELSE ZeroKeSet
        /\ UNCHANGED <<nelts, nalloc, ring_lock, query_ring, free_ring,
                       dead_ring, elems, nrecs, kq, arg, elem, rv, ret,
                       timeout, ready, deadAtStart, deadInWait>>
        /\ UNCHANGED life

\* a poll that goes on to the splice without taking the ring mutex
PollNoLock(t) ==
    /\ pc[t] = "poll_lock"
    /\ pc' = [pc EXCEPT ![t] = "poll_concat"]
    /\ ready' = [ready EXCEPT ![t] = {}]
    /\ UNCHANGED <<shared, arg, elem, rv, ret, idx, timeout, deadAtStart,
                   deadInWait, life>>

\* line 274
PollLock(t) ==
    /\ pc[t] = "poll_lock"
    /\ ring_lock = 0
    /\ ring_lock' = t
    /\ pc' = [pc EXCEPT ![t] = "poll_concat"]
    /\ ready' = [ready EXCEPT ![t] = {}]
    /\ UNCHANGED <<nelts, nalloc, query_ring, free_ring, dead_ring, elems,
                   nrecs, kq, ke_set, result_set, arg, elem, rv, ret, idx,
                   timeout, deadAtStart, deadInWait>>
    /\ UNCHANGED life

\* a poll that returns before the splice unless it has events to report
PollSpliceOnSuccess(t) ==
    /\ pc[t] = "poll_concat"
    /\ free_ring' = IF rv[t] = APR_SUCCESS THEN free_ring \o dead_ring
                    ELSE free_ring
    /\ dead_ring' = IF rv[t] = APR_SUCCESS THEN <<>> ELSE dead_ring
    /\ ring_lock' = 0
    /\ pc' = [pc EXCEPT ![t] = "poll_ret"]
    /\ UNCHANGED <<nelts, nalloc, query_ring, elems, nrecs, kq, ke_set,
                   result_set, arg, elem, rv, ret, idx, timeout, ready,
                   deadAtStart, deadInWait>>
    /\ UNCHANGED life

\* a poll that holds back the records that entered Dead during its wait
PollSpliceHoldBack(t) ==
    /\ pc[t] = "poll_concat"
    /\ free_ring' = free_ring \o SelectSeq(dead_ring,
                                    LAMBDA r : r \notin deadInWait[t])
    /\ dead_ring' = SelectSeq(dead_ring, LAMBDA r : r \in deadInWait[t])
    /\ ring_lock' = 0
    /\ pc' = [pc EXCEPT ![t] = "poll_ret"]
    /\ UNCHANGED <<nelts, nalloc, query_ring, elems, nrecs, kq, ke_set,
                   result_set, arg, elem, rv, ret, idx, timeout, ready,
                   deadAtStart, deadInWait>>
    /\ UNCHANGED life

\* a poll that unlocks and returns without the splice
PollNoSplice(t) ==
    /\ pc[t] = "poll_concat"
    /\ ring_lock' = 0
    /\ pc' = [pc EXCEPT ![t] = "poll_ret"]
    /\ UNCHANGED <<nelts, nalloc, query_ring, free_ring, dead_ring, elems,
                   nrecs, kq, ke_set, result_set, arg, elem, rv, ret, idx,
                   timeout, ready, deadAtStart, deadInWait, life>>

\* lines 276-281: APR_RING_CONCAT splices the whole Dead ring onto the tail
\* of the Free ring and leaves Dead empty; unlock; return rv
PollSplice(t) ==
    /\ pc[t] = "poll_concat"
    /\ free_ring' = free_ring \o dead_ring
    /\ dead_ring' = <<>>
    /\ ring_lock' = 0
    /\ pc' = [pc EXCEPT ![t] = "poll_ret"]
    /\ UNCHANGED <<nelts, nalloc, query_ring, elems, nrecs, kq, ke_set,
                   result_set, arg, elem, rv, ret, idx, timeout, ready,
                   deadAtStart, deadInWait>>
    /\ UNCHANGED life

\* the caller has the call's result and goes on to its next call
Return(t) ==
    /\ pc[t] \in {"add_ret", "remove_ret", "poll_ret"}
    /\ pc' = [pc EXCEPT ![t] = "idle"]
    /\ arg' = [arg EXCEPT ![t] = NoPfd]
    /\ elem' = [elem EXCEPT ![t] = 0]
    /\ rv' = [rv EXCEPT ![t] = APR_SUCCESS]
    /\ ret' = [ret EXCEPT ![t] = 0]
    /\ idx' = [idx EXCEPT ![t] = 0]
    /\ timeout' = [timeout EXCEPT ![t] = 0]
    /\ ready' = [ready EXCEPT ![t] = {}]
    /\ deadAtStart' = [deadAtStart EXCEPT ![t] = {}]
    /\ deadInWait' = [deadInWait EXCEPT ![t] = {}]
    /\ result_set' = IF pc[t] = "poll_ret" /\ ~Reporting(pc, t)
                     THEN ZeroResultSet ELSE result_set
    /\ UNCHANGED <<nelts, nalloc, ring_lock, query_ring, free_ring, dead_ring,
                   elems, nrecs, kq, ke_set>>
    /\ UNCHANGED life

\* one step of one of the caller threads T, whose add and remove calls pass
\* descriptors with reqevents in M, the kernel reporting events with flags
\* in F
Step(T, M, F) ==
    \/ \E t \in T, d \in Descs, m \in M : AddBegin(t, d, m)
    \/ \E t \in T : AddWatchRead(t)
    \/ \E t \in T : AddWatchWrite(t)
    \/ \E t \in T : AddEnd(t)
    \/ \E t \in T, d \in Descs, m \in M : RemoveBegin(t, d, m)
    \/ \E t \in T : RemoveUnwatchRead(t)
    \/ \E t \in T : RemoveUnwatchWrite(t)
    \/ \E t \in T : RemoveEnd(t)
    \/ \E t \in T, to \in Timeouts : PollBegin(t, to)
    \/ \E t \in T : PollWaitError(t)
    \/ \E t \in T : PollWaitTimeout(t)
    \/ \E t \in T : PollWaitEvents(t, F)
    \/ \E t \in T : PollCopy(t)
    \/ \E t \in T : PollLock(t)
    \/ \E t \in T : PollSplice(t)
    \/ \E t \in T : Return(t)

\* ---------------------------------------------------- fspr_pollset_destroy
\* lines 60-65: close(pollset->kqueue_fd), whatever state the handle is in
backend_cleanup ==
    /\ kqueue_open' = FALSE
    /\ closes' = closes + 1

\* fspr_pool_cleanup_run(pool, pollset, backend_cleanup) of the pool: the
\* cleanup is taken off the pool's list and run, at most once; when it is no
\* longer on the list nothing happens
fspr_pool_cleanup_run ==
    IF cleanup_registered
    THEN /\ cleanup_registered' = FALSE
         /\ backend_cleanup
    ELSE UNCHANGED <<cleanup_registered, kqueue_open, closes>>

\* a destroy that calls backend_cleanup itself and not through the pool
DestroyDirect(t) ==
    /\ pc[t] = "idle"
    /\ \A u \in Threads : pc[u] \in {"idle", "destroy_ret"}
    /\ pool_alive
    /\ ndestroy < MaxDestroy
    /\ ndestroy' = ndestroy + 1
    /\ backend_cleanup
    /\ rv' = [rv EXCEPT ![t] = APR_SUCCESS]
    /\ pc' = [pc EXCEPT ![t] = "destroy_ret"]
    /\ UNCHANGED <<shared, arg, elem, ret, idx, timeout, ready, deadAtStart,
                   deadInWait, pool_alive, cleanup_registered>>

\* lines 116-119: destroy hands backend_cleanup to the pool's cleanup_run
\* and returns its status; the caller destroys a pollset no call is using
Destroy(t) ==
    /\ pc[t] = "idle"
    /\ \A u \in Threads : pc[u] \in {"idle", "destroy_ret"}
    /\ pool_alive
    /\ ndestroy < MaxDestroy
    /\ ndestroy' = ndestroy + 1
    /\ fspr_pool_cleanup_run
    /\ rv' = [rv EXCEPT ![t] = APR_SUCCESS]
    /\ pc' = [pc EXCEPT ![t] = "destroy_ret"]
    /\ UNCHANGED <<shared, arg, elem, ret, idx, timeout, ready, deadAtStart,
                   deadInWait, pool_alive>>

DestroyReturn(t) ==
    /\ pc[t] = "destroy_ret"
    /\ pc' = [pc EXCEPT ![t] = "idle"]
    /\ UNCHANGED <<shared, arg, elem, rv, ret, idx, timeout, ready,
                   deadAtStart, deadInWait, life>>

\* the end of the owning pool's scope: the cleanups still on its list run
PoolDestroy ==
    /\ pool_alive
    /\ \A u \in Threads : pc[u] = "idle"
    /\ pool_alive' = FALSE
    /\ fspr_pool_cleanup_run
    /\ UNCHANGED <<shared, locals, ndestroy>>

\* one caller thread, every interest mask
Next == Step({1}, ReqMasks, FlagSets)
Spec == Init /\ [][Next]_vars

\* NumThreads caller threads in any interleaving, every call asking for
\* readable only and no event carrying EV_EOF or EV_ERROR
NextMT == Step(Threads, {{APR_POLLIN}}, {{}})
SpecMT == Init /\ [][NextMT]_vars

\* SpecMT under the scheduling the callers and the kernel provide: a call in
\* progress goes on (every kevent() returns, the mutex is granted to a
\* thread that keeps asking for it, the caller takes the result), and
\* thread 1 keeps issuing poll calls
InProgress(t) ==
    \/ AddWatchRead(t) \/ AddWatchWrite(t) \/ AddEnd(t)
    \/ RemoveUnwatchRead(t) \/ RemoveUnwatchWrite(t) \/ RemoveEnd(t)
    \/ PollWaitError(t) \/ PollWaitTimeout(t) \/ PollWaitEvents(t, {{}})
    \/ PollCopy(t) \/ PollSplice(t) \/ Return(t)
Fairness ==
    /\ \A t \in Threads : WF_vars(InProgress(t))
    /\ \A t \in Threads : SF_vars(PollLock(t))
    /\ SF_vars(\E to \in Timeouts : PollBegin(1, to))
SpecLive == Init /\ [][NextMT]_vars /\ Fairness

\* the whole life of a pollset: one caller thread uses it (readable only),
\* destroys it, possibly more than once, and the pool's scope ends
NextLife ==
    \/ Step({1}, {{APR_POLLIN}}, {{}})
    \/ Destroy(1)
    \/ DestroyReturn(1)
    \/ PoolDestroy
SpecLife == Init /\ [][NextLife]_vars

\* ================================================================ claims
InRing(ring, r) == r \in Range(ring)
\* the step in which thread t's poll splices, unlocks and returns
PollReturns(t) == pc[t] = "poll_concat" /\ pc'[t] = "poll_ret"
\* the tags poll t has still to follow in its copy loop
PendingTags(t) == {ke_set[k].udata : k \in idx[t] + 1 .. ret[t]}
\* the interest bit a filter stands for
BitOf(f) == IF f = EVFILT_READ THEN APR_POLLIN ELSE APR_POLLOUT

\* C1: in thread-safe mode, with any number of poll calls in flight, add
\* never takes from the Free ring and refills a record whose tag kevent has
\* handed to a poll call that has not yet copied it; so each descriptor a
\* poll stores in its result is the one registered with the event's tag.
C1_NoReuseBeforeCopy ==
    [][/\ \A t, u \in Threads :
            (pc[u] = "idle" /\ pc'[u] = "add_read" /\ pc[t] = "poll_copy")
                => elem'[u] \notin PendingTags(t)
       /\ \A t \in Threads :
            (pc[t] = "poll_copy" /\ idx'[t] = idx[t] + 1)
                => FdOf(result_set'[idx'[t]].desc) = ke_set[idx'[t]].ident
      ]_vars

\* C2 as the spec states it: a record remove moved to Dead while poll t was
\* inside its native wait is still in Dead, and not in Free, right after
\* that poll call returns.
C2_HeldBackOneCycle ==
    [][\A t \in Threads :
          PollReturns(t) =>
              \A r \in deadInWait[t] :
                  InRing(dead_ring', r) /\ ~InRing(free_ring', r)]_vars

\* C2 amended: a record remove moved to Dead while poll t was inside its
\* native wait is out of Dead right after that same poll call returns: it is
\* in Free, or an add has already put it back in Active.
C2_ReclaimedBySamePoll ==
    [][\A t \in Threads :
          PollReturns(t) =>
              \A r \in deadInWait[t] :
                  /\ ~InRing(dead_ring', r)
                  /\ InRing(free_ring', r) \/ InRing(query_ring', r)]_vars

C2_Witness ==
    \E t \in Threads : pc[t] = "poll_ret" /\ deadInWait[t] # {}

\* C3: whatever the outcome of a poll call (events, timeout, native error),
\* each record that was in Dead when the call started is in Free, or reused
\* in Active, when the call returns; and a record enters Dead only from
\* Active, by a remove, and enters Active only by an add.
C3_DeadAtStartIsFreed ==
    [][/\ \A t \in Threads :
            PollReturns(t) =>
                \A r \in deadAtStart[t] :
                    /\ ~InRing(dead_ring', r)
                    /\ InRing(free_ring', r) \/ InRing(query_ring', r)
       /\ \A r \in Recs :
            /\ (InRing(dead_ring', r) /\ ~InRing(dead_ring, r))
                   => /\ InRing(query_ring, r)
                      /\ \E u \in Threads :
                            pc[u] = "remove_scan" /\ pc'[u] = "remove_ret"
            /\ (InRing(query_ring', r) /\ ~InRing(query_ring, r))
                   => \E u \in Threads :
                         pc[u] = "add_end" /\ pc'[u] = "add_ret" /\ elem[u] = r
      ]_vars

C3_Witness ==
    \E t \in Threads :
        pc[t] = "poll_ret" /\ ret[t] = -1 /\ deadAtStart[t] # {}

\* C4: whenever no call holds the ring lock, every record allocated so far
\* is in exactly one of the Active, Dead and Free rings, and the three ring
\* lengths add up to the number of records allocated.
C4_RingExclusivity ==
    ring_lock = 0 =>
        /\ Range(query_ring) \cup Range(dead_ring) \cup Range(free_ring)
               = 1 .. nrecs
        /\ Len(query_ring) + Len(dead_ring) + Len(free_ring) = nrecs

C4_Witness ==
    /\ ring_lock = 0
    /\ query_ring # <<>>
    /\ dead_ring # <<>>
    /\ \E t \in Threads : pc[t] = "add_ret" /\ rv[t] # APR_SUCCESS

\* C5: whenever no call holds the ring lock, nelts is the number of records
\* in the Active ring.
C5_CountIsActive == ring_lock = 0 => nelts = Len(query_ring)

\* C6: when add returns a failure, no knote carrying the call's record is
\* left registered for the descriptor, for either filter; the record is in
\* Free and not in Active.
C6_FailedAddRollsBack ==
    \A t \in Threads :
        (pc[t] = "add_ret" /\ rv[t] # APR_SUCCESS) =>
            /\ \A f \in Filters : kq[<<FdOf(arg[t].desc), f>>] # elem[t]
            /\ InRing(free_ring, elem[t])
            /\ ~InRing(query_ring, elem[t])

\* C7: for a descriptor D that is in the Active ring, added with interest
\* mask M, no entry of a poll result reports D with mask M and a readable or
\* writable bit that is not in M.  (The hangup and error bits are in no
\* interest mask; the statement is kept to the two bits a mask can hold.)
C7_NoBitOutsideMask ==
    \A t \in Threads :
        pc[t] \in {"poll_lock", "poll_concat", "poll_ret"} =>
            \A k \in 1 .. ret[t] :
                (\E r \in Range(query_ring) :
                    /\ elems[r].desc = result_set[k].desc
                    /\ elems[r].reqevents = result_set[k].reqevents)
                    => result_set[k].rtnevents \cap {APR_POLLIN, APR_POLLOUT}
                           \subseteq result_set[k].reqevents

\* C8: when kevent returns to a poll call without an error while an Active
\* record's descriptor is ready for an event of its interest mask, the
\* result has an entry for that descriptor with the event's bit set.
C8_ReadyIsReported ==
    \A t \in Threads :
        (pc[t] = "poll_lock" /\ ret[t] >= 0 /\ Len(query_ring) <= nalloc) =>
            \A r \in Range(query_ring), f \in Filters :
                (/\ <<FdOf(elems[r].desc), f>> \in ready[t]
                 /\ BitOf(f) \in elems[r].reqevents)
                    => \E k \in 1 .. ret[t] :
                          /\ result_set[k].desc = elems[r].desc
                          /\ BitOf(f) \in result_set[k].rtnevents

\* C9: remove never returns a failure status.
C9_RemoveSucceeds ==
    \A t \in Threads : pc[t] = "remove_ret" => rv[t] = APR_SUCCESS

\* C10: no step of a remove call whose descriptor matches no record of the
\* Active ring changes the Active, Dead or Free ring or nelts.
C10_UnmatchedRemoveIsNoOp ==
    [][\A t \in Threads :
          (/\ pc'[t] \in {"remove_read", "remove_write", "remove_scan",
                          "remove_ret"}
           /\ pc'[t] # pc[t]
           /\ \A r \in Range(query_ring) : elems[r].desc # arg'[t].desc)
              => UNCHANGED <<query_ring, dead_ring, free_ring, nelts>>]_vars

C10_Witness ==
    \E t \in Threads :
        /\ pc[t] = "remove_ret"
        /\ elem[t] = 0
        /\ query_ring # <<>>
        /\ \E r \in Range(dead_ring) : elems[r].desc = arg[t].desc

C12_PollOutcome ==
    \A t \in Threads :
        pc[t] \in {"poll_lock", "poll_concat", "poll_ret"} =>
            /\ rv[t] \in {APR_TIMEUP, APR_SUCCESS, NetosError}
            /\ rv[t] = APR_TIMEUP <=> ret[t] = 0
            /\ rv[t] = APR_SUCCESS <=> ret[t] \in 1 .. nalloc
            /\ rv[t] = NetosError <=> ret[t] < 0
            /\ pc[t] = "poll_lock" =>
                  /\ ready[t] = {} <=> ret[t] <= 0
                  /\ ret[t] > 0 => ret[t] = Min(nalloc, Cardinality(ready[t]))
                  /\ idx[t] = IF ret[t] > 0 THEN ret[t] ELSE 0

C12_Witness ==
    \E t \in Threads :
        /\ pc[t] = "poll_ret"
        /\ rv[t] = APR_TIMEUP
        /\ Registered # {}

\* C13: once remove has returned for a descriptor, whatever interest mask
\* the caller passed and whether or not an unwatch failed, no registered
\* knote carries the tag of the record the call moved out of the Active
\* ring.
C13_NoWatchOnRemoved ==
    \A t \in Threads :
        (pc[t] = "remove_ret" /\ elem[t] # 0) =>
            \A k \in Registered : kq[k] # elem[t]

\* C14: remove issues the EV_DELETE of every bit of the mask it is passed,
\* the write one also after the read one failed; so when remove returns, no
\* knote of the descriptor is left for a filter whose bit was in the mask.
C14_UnwatchPerBit ==
    \A t \in Threads :
        pc[t] = "remove_ret" =>
            \A f \in Filters :
                BitOf(f) \in arg[t].reqevents
                    => kq[<<FdOf(arg[t].desc), f>>] = 0

\* C15: when the Active ring holds a record whose desc equals the
\* descriptor passed to remove, whatever the masks passed and stored, the
\* call moves exactly one record, the first such record in ring order, to
\* the tail of the Dead ring; the Free ring is untouched and every other
\* record keeps its ring and its place among the others.
C15_FirstMatchToDeadTail ==
    [][\A t \in Threads :
          (/\ pc[t] = "remove_scan" /\ pc'[t] = "remove_ret"
           /\ \E r \in Range(query_ring) : elems[r].desc = arg[t].desc)
              => \E k \in 1 .. Len(query_ring) :
                    /\ elems[query_ring[k]].desc = arg[t].desc
                    /\ \A j \in 1 .. k - 1 :
                          elems[query_ring[j]].desc # arg[t].desc
                    /\ query_ring' =
                          [j \in 1 .. Len(query_ring) - 1 |->
                              IF j < k THEN query_ring[j]
                              ELSE query_ring[j + 1]]
                    /\ dead_ring' = dead_ring \o <<query_ring[k]>>
                    /\ free_ring' = free_ring]_vars

C15_Witness ==
    \E t \in Threads :
        /\ pc[t] = "remove_ret"
        /\ elem[t] # 0
        /\ elems[elem[t]].reqevents # arg[t].reqevents
        /\ dead_ring[Len(dead_ring)] = elem[t]
        /\ \E r \in Range(query_ring) : elems[r].desc = arg[t].desc

\* C16: add allocates a fresh record only when the Free ring is empty at the
\* moment it holds the lock; otherwise it takes the head of the Free ring
\* and the number of records allocated does not change.
C16_FreshOnlyWhenFreeEmpty ==
    [][\A t \in Threads :
          (pc[t] = "idle" /\ pc'[t] = "add_read") =>
              IF free_ring = <<>>
              THEN /\ nrecs' = nrecs + 1
                   /\ elem'[t] = nrecs'
                   /\ free_ring' = <<>>
                   /\ elem'[t] \notin Range(query_ring) \cup Range(dead_ring)
              ELSE /\ nrecs' = nrecs
                   /\ elem'[t] = free_ring[1]
                   /\ free_ring' = SubSeq(free_ring, 2, Len(free_ring))]_vars

C16_Witness ==
    \E t \in Threads :
        /\ pc[t] = "add_read"
        /\ nrecs = 2
        /\ free_ring # <<>>
        /\ query_ring = <<>>

\* C17: when every EV_ADD of an add call succeeds, the call's record holds
\* the descriptor and mask passed and is the last element of the Active
\* ring when add unlocks and returns, the ring being otherwise as before;
\* nelts has grown by exactly one, and no step of the call changes the Dead
\* ring.
C17_SuccessfulAddAtTail ==
    [][\A t \in Threads :
          /\ (pc[t] = "add_end" /\ pc'[t] = "add_ret" /\ rv[t] = APR_SUCCESS)
                => /\ Len(query_ring') = Len(query_ring) + 1
                   /\ query_ring'[Len(query_ring')] = elem[t]
                   /\ \A k \in 1 .. Len(query_ring) :
                         query_ring'[k] = query_ring[k]
                   /\ elems'[elem[t]].desc = arg[t].desc
                   /\ elems'[elem[t]].reqevents = arg[t].reqevents
                   /\ nelts' = nelts + 1
                   /\ free_ring' = free_ring
                   /\ \A f \in Filters :
                         BitOf(f) \in arg[t].reqevents
                             => kq'[<<FdOf(arg[t].desc), f>>] = elem[t]
          /\ (pc'[t] \in {"add_read", "add_write", "add_end", "add_ret"}
                  /\ pc'[t] # pc[t])
                => dead_ring' = dead_ring]_vars

C17_Witness ==
    \E t \in Threads :
        /\ pc[t] = "add_ret"
        /\ rv[t] = APR_SUCCESS
        /\ arg[t].reqevents = {APR_POLLIN, APR_POLLOUT}
        /\ Len(query_ring) = 2
        /\ query_ring[2] = elem[t]

\* the positions between pollset_lock_rings and pollset_unlock_rings
Critical == {"add_read", "add_write", "add_end", "remove_read",
             "remove_write", "remove_scan", "poll_concat"}

\* C18: at most one thread is between the lock and the unlock of add,
\* remove or poll's splice, and it holds the ring mutex; every step that
\* changes the Active, Dead or Free ring or nelts is a step of the thread
\* that holds the mutex (or takes it in that step).
C18_RingsUnderLock ==
    [][/\ \A t, u \in Threads :
            (pc'[t] \in Critical /\ pc'[u] \in Critical) => t = u
       /\ \A t \in Threads : pc'[t] \in Critical => ring_lock' = t
       /\ <<query_ring, dead_ring, free_ring, nelts>>'
              # <<query_ring, dead_ring, free_ring, nelts>>
            => \E t \in Threads :
                  /\ pc'[t] # pc[t]
                  /\ \A u \in Threads \ {t} : pc'[u] = pc[u]
                  /\ \/ ring_lock = t
                     \/ ring_lock = 0 /\ ring_lock' = t
      ]_vars

C18_Witness ==
    \E t, u \in Threads :
        /\ pc[t] = "poll_lock"
        /\ dead_ring # <<>>
        /\ pc[u] = "add_end"
        /\ ring_lock = u

\* C19: while poll calls keep being issued and complete, every record that
\* is in the Dead ring is later in the Free ring or back in the Active
\* ring; no record stays in Dead forever.
C19_DeadEventuallyFreed ==
    \A r \in Recs :
        InRing(dead_ring, r) ~> (InRing(free_ring, r) \/ InRing(query_ring, r))

C19_Witness ==
    \E t \in Threads :
        /\ pc[t] = "poll_ret"
        /\ rv[t] = APR_TIMEUP
        /\ deadAtStart[t] \cup deadInWait[t] = Recs
        /\ Range(free_ring) = Recs

\* C20: the rtnevents poll writes into a result slot for a native event
\* (filter, flags) has APR_POLLIN iff the filter is EVFILT_READ, APR_POLLOUT
\* iff it is EVFILT_WRITE, APR_POLLHUP iff EV_EOF is set, APR_POLLERR iff
\* EV_ERROR is set, and no other bit; the rest of the slot is the record's
\* descriptor and mask.
C20_ReventExact ==
    [][\A t \in Threads :
          (pc[t] = "poll_copy" /\ idx'[t] = idx[t] + 1) =>
              LET ke == ke_set[idx'[t]]
                  rt == result_set'[idx'[t]].rtnevents
              IN  /\ APR_POLLIN \in rt <=> ke.filter = EVFILT_READ
                  /\ APR_POLLOUT \in rt <=> ke.filter = EVFILT_WRITE
                  /\ APR_POLLHUP \in rt <=> EV_EOF \in ke.flags
                  /\ APR_POLLERR \in rt <=> EV_ERROR \in ke.flags
                  /\ rt \subseteq {APR_POLLIN, APR_POLLOUT, APR_POLLHUP,
                                    APR_POLLERR}
                  /\ result_set'[idx'[t]].reqevents
                        = elems[ke.udata].reqevents]_vars

C20_Witness ==
    \E t \in Threads :
        /\ pc[t] = "poll_lock"
        /\ ret[t] = 2
        /\ result_set[1].rtnevents = {APR_POLLIN, APR_POLLHUP, APR_POLLERR}
        /\ result_set[2].rtnevents = {APR_POLLOUT}
====
